---- MODULE Spec2Model ----
(***************************************************************************)
(* Lantern route-sheet ingest: the field extraction heuristics of          *)
(* app/services/extract.py, the job record store of app/services/ingest.py *)
(* and the background task of app/api/routes.py.                           *)
(*                                                                         *)
(* Text is a sequence of one-character strings; an optional value (a       *)
(* Python value that may be None) is a sequence of length at most one:     *)
(* None is <<>> and Some(v) is <<v>>.  A dict is a function whose domain   *)
(* is the set of keys that are present.                                    *)
(***************************************************************************)
EXTENDS Integers, Sequences, FiniteSets, TLC

None == <<>>
Some(v) == <<v>>

Min(S) == CHOOSE x \in S : \A y \in S : x <= y
Max(S) == CHOOSE x \in S : \A y \in S : x >= y

(***************************************************************************)
(* Characters.                                                             *)
(***************************************************************************)
UpperChars == <<"A", "B", "C", "D", "E", "F", "G", "H", "I", "J", "K", "L", "M",
                "N", "O", "P", "Q", "R", "S", "T", "U", "V", "W", "X", "Y", "Z">>
LowerChars == <<"a", "b", "c", "d", "e", "f", "g", "h", "i", "j", "k", "l", "m",
                "n", "o", "p", "q", "r", "s", "t", "u", "v", "w", "x", "y", "z">>
DigitChars == {"0", "1", "2", "3", "4", "5", "6", "7", "8", "9"}
UpperSet == {UpperChars[i] : i \in 1..Len(UpperChars)}
LowerSet == {LowerChars[i] : i \in 1..Len(LowerChars)}

IsUpper(c) == c \in UpperSet
IsDigit(c) == c \in DigitChars
\* the whitespace a line can hold once splitlines() has cut the text
IsSpace(c) == c \in {" ", "\t"}
Lower(c) ==
    IF c \in UpperSet
    THEN LowerChars[CHOOSE i \in 1..Len(UpperChars) : UpperChars[i] = c]
    ELSE c
Upper(c) ==
    IF c \in LowerSet
    THEN UpperChars[CHOOSE i \in 1..Len(LowerChars) : LowerChars[i] = c]
    ELSE c
\* \w of the regex engine
IsWordChar(c) == IsDigit(c) \/ c = "_" \/ c \in UpperSet \/ c \in LowerSet

UpperStr(s) == [i \in 1..Len(s) |-> Upper(s[i])]

\* the rest of s from position i on
From(s, i) == SubSeq(s, i, Len(s))

\* str.strip()
Strip(s) ==
    LET keep == {i \in 1..Len(s) : ~IsSpace(s[i])}
    IN IF keep = {} THEN <<>> ELSE SubSeq(s, Min(keep), Max(keep))

\* str.replace(old, new) for a single character old
ReplaceChar(s, old, new) == [i \in 1..Len(s) |-> IF s[i] = old THEN new ELSE s[i]]

\* str.replace(c, "")
RECURSIVE RemoveChar(_, _)
RemoveChar(s, c) ==
    IF s = <<>> THEN <<>>
    ELSE IF Head(s) = c THEN RemoveChar(Tail(s), c)
    ELSE <<Head(s)>> \o RemoveChar(Tail(s), c)

\* " ".join(strs)
RECURSIVE Join(_)
Join(strs) ==
    IF strs = <<>> THEN <<>>
    ELSE IF Len(strs) = 1 THEN strs[1]
    ELSE strs[1] \o <<" ">> \o Join(Tail(strs))

\* len(line.split()): the number of maximal runs of non-whitespace
TokenCount(s) ==
    Cardinality({i \in 1..Len(s) : ~IsSpace(s[i]) /\ (i = 1 \/ IsSpace(s[i - 1]))})

(***************************************************************************)
(* Regular expression pieces, as re.search evaluates them: the leftmost    *)
(* start wins, quantifiers are greedy.                                     *)
(***************************************************************************)
\* the literal lit (lower case) stands at position i of s, ignoring case
StartsAt(s, lit, i) ==
    /\ i >= 1
    /\ i + Len(lit) - 1 <= Len(s)
    /\ \A k \in 1..Len(lit) : Lower(s[i + k - 1]) = lit[k]

\* substring test, ignoring case ("x" in line.lower())
Contains(s, lit) == \E i \in 1..Len(s) : StartsAt(s, lit, i)

\* n digits stand at position i
DigitsAt(s, i, n) ==
    /\ i >= 1
    /\ i + n - 1 <= Len(s)
    /\ \A k \in 0..(n - 1) : IsDigit(s[i + k])

\* \s* from position i: the first position at or after i that is not whitespace
SkipSpace(s, i) ==
    Min({j \in i..(Len(s) + 1) : j = Len(s) + 1 \/ ~IsSpace(s[j])})

\* [:\s]* from position i
SkipLabelSep(s, i) ==
    Min({j \in i..(Len(s) + 1) : j = Len(s) + 1 \/ ~(IsSpace(s[j]) \/ s[j] = ":")})

\* \d+ from position i (a digit stands at i): the position after the run
SkipDigits(s, i) ==
    Min({j \in i..(Len(s) + 1) : j = Len(s) + 1 \/ ~IsDigit(s[j])})

\* \b between positions p - 1 and p
WordBoundary(s, p) ==
    LET before == p - 1 >= 1 /\ p - 1 <= Len(s) /\ IsWordChar(s[p - 1])
        after == p >= 1 /\ p <= Len(s) /\ IsWordChar(s[p])
    IN before # after

(***************************************************************************)
(* FIELD_PATTERNS: each pattern is a label, any run of colons and          *)
(* whitespace, and a group that takes the rest of the line, compiled with  *)
(* re.IGNORECASE; the postal code pattern has two labels, zip code and zip.*)
(***************************************************************************)
FIELD_PATTERNS ==
    [route |-> << <<"r", "o", "u", "t", "e">> >>,
     site_name |-> << <<"s", "l", "a", "n", "g", " ", "n", "a", "m", "e">> >>,
     address |-> << <<"a", "d", "d", "r", "e", "s", "s">> >>,
     city |-> << <<"c", "i", "t", "y">> >>,
     postal_code |-> << <<"z", "i", "p", " ", "c", "o", "d", "e">>, <<"z", "i", "p">> >>,
     service_days |-> << <<"s", "e", "r", "v", "i", "c", "e", " ", "d", "a", "y", "s">> >>,
     time_open |-> << <<"t", "i", "m", "e", " ", "o", "p", "e", "n">> >>,
     time_closed |-> << <<"t", "i", "m", "e", " ", "c", "l", "o", "s", "e", "d">> >>,
     notes |-> << <<"s", "p", "e", "c", "i", "a", "l", " ", "n", "o", "t", "e", "s">> >>]

\* pattern.search(line) for pattern = FIELD_PATTERNS[key]: None when the label
\* is not in the line, else Some(the value group), the rest of the line after
\* the label and its colons and whitespace
PatternSearch(key, line) ==
    LET alts == FIELD_PATTERNS[key]
        starts == {i \in 1..Len(line) :
                      \E a \in 1..Len(alts) : StartsAt(line, alts[a], i)}
    IN IF starts = {} THEN None
       ELSE LET i == Min(starts)
                a == Min({b \in 1..Len(alts) : StartsAt(line, alts[b], i)})
            IN Some(From(line, SkipLabelSep(line, i + Len(alts[a]))))

\* any(pattern.search(line) for pattern in stop_keys.values())
MatchesAnyLabel(line) ==
    \E key \in DOMAIN FIELD_PATTERNS : PatternSearch(key, line) # None

\* _collect_block_lines(lines, start_index, stop_keys=FIELD_PATTERNS); start
\* is the one-based position of the first line looked at
RECURSIVE _collect_block_lines(_, _)
_collect_block_lines(lines, start) ==
    IF start > Len(lines) THEN <<>>
    ELSE IF MatchesAnyLabel(lines[start]) THEN <<>>
    ELSE <<lines[start]>> \o _collect_block_lines(lines, start + 1)

\* _collect_following_lines(lines, start_index, stop_keys=FIELD_PATTERNS)
_collect_following_lines(lines, start) ==
    LET value == Strip(Join(_collect_block_lines(lines, start)))
    IN IF value = <<>> THEN None ELSE Some(value)

\* _extract_field_from_lines(lines, key), from position index on
RECURSIVE ExtractFieldFrom(_, _, _)
ExtractFieldFrom(lines, key, index) ==
    IF index > Len(lines) THEN None
    ELSE LET match == PatternSearch(key, lines[index])
         IN IF match # None
            THEN IF Strip(match[1]) # <<>>
                 THEN Some(Strip(match[1]))
                 ELSE _collect_following_lines(lines, index + 1)
            ELSE ExtractFieldFrom(lines, key, index + 1)

_extract_field_from_lines(lines, key) == ExtractFieldFrom(lines, key, 1)

(***************************************************************************)
(* Street lines and the address block.                                     *)
(***************************************************************************)
StreetSuffixes ==
    << <<"r", "d">>, <<"r", "o", "a", "d">>, <<"s", "t">>,
       <<"s", "t", "r", "e", "e", "t">>, <<"a", "v", "e">>,
       <<"a", "v", "e", "n", "u", "e">>, <<"b", "l", "v", "d">>,
       <<"b", "o", "u", "l", "e", "v", "a", "r", "d">>, <<"d", "r">>,
       <<"d", "r", "i", "v", "e">>, <<"l", "n">>, <<"l", "a", "n", "e">>,
       <<"c", "t">>, <<"c", "o", "u", "r", "t">> >>

\* \b(rd|road|...)\b matches at position p with alternative a
SuffixAt(line, p, a) ==
    /\ StartsAt(line, StreetSuffixes[a], p)
    /\ WordBoundary(line, p)
    /\ WordBoundary(line, p + Len(StreetSuffixes[a]))

\* \d{2,5}\s+.+ can start at i and stop right before position p
StreetPrefix(line, i, p) ==
    \E nd \in 2..5 :
        /\ DigitsAt(line, i, nd)
        /\ i + nd <= Len(line)
        /\ IsSpace(line[i + nd])
        /\ p >= i + nd + 2

\* _find_street_line(line): None, or Some(match.group(0).strip()).  The greedy
\* .+ runs to the last suffix of the line it can reach; \.? and ,? then take a
\* dot and a comma when they stand there.
_find_street_line(line) ==
    LET suffixes == {p \in 1..Len(line) :
                        \E a \in 1..Len(StreetSuffixes) : SuffixAt(line, p, a)}
        starts == {i \in 1..Len(line) :
                      \E p \in suffixes : StreetPrefix(line, i, p)}
    IN IF starts = {} THEN None
       ELSE LET i == Min(starts)
                p == Max({q \in suffixes : StreetPrefix(line, i, q)})
                a == Min({b \in 1..Len(StreetSuffixes) : SuffixAt(line, p, b)})
                e1 == p + Len(StreetSuffixes[a])
                e2 == IF e1 <= Len(line) /\ line[e1] = "." THEN e1 + 1 ELSE e1
                e3 == IF e2 <= Len(line) /\ line[e2] = "," THEN e2 + 1 ELSE e2
            IN Some(Strip(SubSeq(line, i, e3 - 1)))

\* re.search(r"([A-Z]{2})\s+(\d{5})", postal_line), formatted "{1} {2}"
StateZipSearch(line) ==
    LET ok(i) == /\ i + 1 <= Len(line)
                 /\ IsUpper(line[i])
                 /\ IsUpper(line[i + 1])
                 /\ i + 2 <= Len(line)
                 /\ IsSpace(line[i + 2])
                 /\ DigitsAt(line, SkipSpace(line, i + 2), 5)
        starts == {i \in 1..Len(line) : ok(i)}
    IN IF starts = {} THEN None
       ELSE LET i == Min(starts)
                d == SkipSpace(line, i + 2)
            IN Some(SubSeq(line, i, i + 1) \o <<" ">> \o SubSeq(line, d, d + 4))

\* the (address, city, postal_code) built when lines[index] carries the
\* address label: the block of lines after it, up to the next label line
LabeledAddressBlock(lines, index) ==
    LET block == _collect_block_lines(lines, index + 1)
    IN <<IF Len(block) > 0 THEN Some(block[1]) ELSE None,
         IF Len(block) > 1 THEN Some(block[2]) ELSE None,
         IF Len(block) > 2 THEN StateZipSearch(block[3]) ELSE None>>

\* the (address, city, postal_code) built when lines[index] holds a street
\* match and no address label
FallbackAddressBlock(lines, index, street) ==
    <<street,
      IF index + 1 <= Len(lines) THEN Some(lines[index + 1]) ELSE None,
      IF index + 2 <= Len(lines) THEN StateZipSearch(lines[index + 2]) ELSE None>>

\* the loop of _extract_address_block from position index on
RECURSIVE AddressBlockFrom(_, _)
AddressBlockFrom(lines, index) ==
    IF index > Len(lines) THEN <<None, None, None>>
    ELSE IF PatternSearch("address", lines[index]) # None
    THEN LabeledAddressBlock(lines, index)
    ELSE IF _find_street_line(lines[index]) # None
    THEN FallbackAddressBlock(lines, index, _find_street_line(lines[index]))
    ELSE AddressBlockFrom(lines, index + 1)

_extract_address_block(lines) == AddressBlockFrom(lines, 1)

\* re.sub(r"\\D", "", value): the pattern is a backslash followed by D
RECURSIVE RemoveBackslashD(_)
RemoveBackslashD(s) ==
    IF s = <<>> THEN <<>>
    ELSE IF Len(s) >= 2 /\ s[1] = "\\" /\ s[2] = "D"
    THEN RemoveBackslashD(SubSeq(s, 3, Len(s)))
    ELSE <<Head(s)>> \o RemoveBackslashD(Tail(s))

\* _normalize_postal_code(value)
_normalize_postal_code(value) ==
    IF value = None \/ value[1] = <<>> THEN None
    ELSE LET digits == RemoveBackslashD(value[1])
             last == SubSeq(digits, Max({1, Len(digits) - 4}), Len(digits))
         IN IF last = <<>> THEN None ELSE Some(last)

(***************************************************************************)
(* Open and closed times.                                                  *)
(***************************************************************************)
\* [APap][Mm] at position i
AmPmAt(s, i) ==
    /\ i >= 1
    /\ i + 1 <= Len(s)
    /\ s[i] \in {"A", "P", "a", "p"}
    /\ s[i + 1] \in {"M", "m"}

\* (\d{1,2}:\d{2}\s*[APap][Mm]) matches at i with nd hour digits
ClockAt(s, i, nd) ==
    /\ DigitsAt(s, i, nd)
    /\ i + nd <= Len(s)
    /\ s[i + nd] = ":"
    /\ DigitsAt(s, i + nd + 1, 2)
    /\ AmPmAt(s, SkipSpace(s, i + nd + 3))

\* (\d{1,2})\s*([APap][Mm]) matches at i with nd hour digits
HourAt(s, i, nd) ==
    /\ DigitsAt(s, i, nd)
    /\ AmPmAt(s, SkipSpace(s, i + nd))

\* _normalize_time_value(value)
_normalize_time_value(value) ==
    LET cleaned == ReplaceChar(ReplaceChar(value, "|", " "), "l", "1")
        clock == {i \in 1..Len(cleaned) : \E nd \in 1..2 : ClockAt(cleaned, i, nd)}
        hour == {i \in 1..Len(cleaned) : \E nd \in 1..2 : HourAt(cleaned, i, nd)}
    IN IF clock # {}
       THEN LET i == Min(clock)
                nd == Max({n \in 1..2 : ClockAt(cleaned, i, n)})
                e == SkipSpace(cleaned, i + nd + 3) + 1
            IN Some(RemoveChar(UpperStr(SubSeq(cleaned, i, e)), " "))
       ELSE IF hour # {}
       THEN LET i == Min(hour)
                nd == Max({n \in 1..2 : HourAt(cleaned, i, n)})
                m == SkipSpace(cleaned, i + nd)
            IN Some(SubSeq(cleaned, i, i + nd - 1) \o <<" ">>
                    \o UpperStr(SubSeq(cleaned, m, m + 1)))
       ELSE IF Strip(cleaned) = <<>> THEN None ELSE Some(Strip(cleaned))

\* the loop of _extract_time_value from position index on
RECURSIVE TimeValueFrom(_, _, _)
TimeValueFrom(lines, key, index) ==
    IF index > Len(lines) THEN None
    ELSE LET match == PatternSearch(key, lines[index])
         IN IF match # None /\ Strip(match[1]) # <<>>
            THEN _normalize_time_value(Strip(match[1]))
            ELSE IF match # None /\ index + 1 <= Len(lines)
            THEN _normalize_time_value(lines[index + 1])
            ELSE TimeValueFrom(lines, key, index + 1)

_extract_time_value(lines, key) == TimeValueFrom(lines, key, 1)

(***************************************************************************)
(* Service days.                                                           *)
(***************************************************************************)
DayTokens ==
    << <<"m", "o", "n">>, <<"t", "u", "e">>, <<"w", "e", "d">>, <<"t", "h", "u">>,
       <<"f", "r", "i">>, <<"s", "a", "t">>, <<"s", "u", "n">> >>

DayAt(s, i) == \E d \in 1..Len(DayTokens) : StartsAt(s, DayTokens[d], i)

IsLetter(c) == c \in UpperSet \/ c \in LowerSet

\* str.title()
TitleStr(s) ==
    [i \in 1..Len(s) |->
        IF i > 1 /\ IsLetter(s[i - 1]) THEN Lower(s[i]) ELSE Upper(s[i])]

\* the weekday search of _extract_service_days on the candidate line and the
\* string built from its match: one day, or two days around a hyphen
DaySearch(candidate) ==
    LET starts == {i \in 1..Len(candidate) : DayAt(candidate, i)}
    IN IF starts = {} THEN None
       ELSE LET i == Min(starts)
                h == SkipSpace(candidate, i + 3)
                k == SkipSpace(candidate, h + 1)
                first == SubSeq(candidate, i, i + 2)
            IN IF h <= Len(candidate) /\ candidate[h] = "-" /\ DayAt(candidate, k)
               THEN Some(TitleStr(first \o <<"-">> \o SubSeq(candidate, k, k + 2)))
               ELSE Some(TitleStr(first))

\* the loop of _extract_service_days from position index on
RECURSIVE ServiceDaysFrom(_, _)
ServiceDaysFrom(lines, index) ==
    IF index > Len(lines) THEN None
    ELSE IF /\ PatternSearch("service_days", lines[index]) # None
            /\ index + 1 <= Len(lines)
            /\ DaySearch(lines[index + 1]) # None
    THEN DaySearch(lines[index + 1])
    ELSE ServiceDaysFrom(lines, index + 1)

_extract_service_days(lines) == ServiceDaysFrom(lines, 1)

(***************************************************************************)
(* ExtractedFields and the salt information.                               *)
(***************************************************************************)
\* ExtractedFields(): the dataclass with its fourteen defaults
ExtractedFields ==
    [route |-> None, site_name |-> None, address |-> None, city |-> None,
     postal_code |-> None, gps_latitude |-> None, gps_longitude |-> None,
     service_days |-> None, time_open |-> None, time_closed |-> None,
     notes |-> None, salt_product |-> None, salt_amount |-> None,
     salt_unit |-> None]

ProductTokens ==
    << <<"s", "a", "l", "t">>, <<"e", "c", "o", "2">>,
       <<"r", "e", "l", "i", "a", "b", "l", "e", " ", "b", "l", "u", "e">> >>
UnitTokens == << <<"b", "a", "g", "s">>, <<"s", "c", "o", "o", "p", "s">> >>

\* (\d+(?:\.\d+)?)? at position i: the position after the number, i when no
\* digit stands at i
NumberEnd(s, i) ==
    IF ~DigitsAt(s, i, 1) THEN i
    ELSE LET e == SkipDigits(s, i)
         IN IF e <= Len(s) /\ s[e] = "." /\ DigitsAt(s, e + 1, 1)
            THEN SkipDigits(s, e + 1)
            ELSE e

\* (bags|scoops)? at position i: the unit as written, or None
UnitAtPos(s, i) ==
    LET hits == {u \in 1..Len(UnitTokens) : StartsAt(s, UnitTokens[u], i)}
    IN IF hits = {} THEN None
       ELSE Some(SubSeq(s, i, i + Len(UnitTokens[Min(hits)]) - 1))

\* the amount and unit groups read from position i: \s*, the optional number,
\* \s*, the optional unit
AmountAndUnit(s, i) ==
    LET n == SkipSpace(s, i)
        e == NumberEnd(s, n)
    IN <<IF e > n THEN Some(SubSeq(s, n, e - 1)) ELSE None,
         UnitAtPos(s, SkipSpace(s, e))>>

\* the product search of _populate_salt_info: None, or
\* Some(<<group 1, group 2, group 3>>), groups 2 and 3 optional
SaltSearch(candidate) ==
    LET starts == {i \in 1..Len(candidate) :
                      \E a \in 1..Len(ProductTokens) :
                          StartsAt(candidate, ProductTokens[a], i)}
    IN IF starts = {} THEN None
       ELSE LET i == Min(starts)
                a == Min({b \in 1..Len(ProductTokens) :
                             StartsAt(candidate, ProductTokens[b], i)})
                e == i + Len(ProductTokens[a])
                rest == AmountAndUnit(candidate, e)
            IN Some(<<SubSeq(candidate, i, e - 1), rest[1], rest[2]>>)

\* the quantity search of _populate_salt_info: None, or
\* Some(<<group 1, group 2>>), group 2 optional
QuantitySearch(line) ==
    LET starts == {i \in 1..Len(line) : IsDigit(line[i])}
    IN IF starts = {} THEN None
       ELSE LET i == Min(starts)
                e == NumberEnd(line, i)
            IN Some(<<SubSeq(line, i, e - 1), UnitAtPos(line, SkipSpace(line, e))>>)

\* x or y on optional strings
OrElse(x, y) == IF x # None /\ x[1] # <<>> THEN x ELSE y

\* the position of the first line holding "salt info" or "sidewalk info", 0
\* when there is none
SaltIndex(lines) ==
    LET hits == {i \in 1..Len(lines) :
                    \/ Contains(lines[i], <<"s", "a", "l", "t", " ", "i", "n", "f", "o">>)
                    \/ Contains(lines[i], <<"s", "i", "d", "e", "w", "a", "l", "k", " ",
                                            "i", "n", "f", "o">>)}
    IN IF hits = {} THEN 0 ELSE Min(hits)

\* the backfill loop of _populate_salt_info over the lines index..last
RECURSIVE SaltBackfill(_, _, _, _)
SaltBackfill(fields, lines, index, last) ==
    IF index > last \/ index > Len(lines) THEN fields
    ELSE LET quantity == QuantitySearch(lines[index])
         IN IF quantity # None
            THEN [fields EXCEPT
                     !.salt_amount = OrElse(fields.salt_amount, Some(quantity[1][1])),
                     !.salt_unit = OrElse(fields.salt_unit, quantity[1][2])]
            ELSE SaltBackfill(fields, lines, index + 1, last)

\* _populate_salt_info(fields, lines): the fields it leaves
_populate_salt_info(fields, lines) ==
    LET salt_index == SaltIndex(lines)
        candidate == IF salt_index # 0 THEN lines[salt_index] ELSE Join(lines)
        match == SaltSearch(candidate)
        matched == IF match = None THEN fields
                   ELSE [fields EXCEPT !.salt_product = Some(match[1][1]),
                                       !.salt_amount = match[1][2],
                                       !.salt_unit = match[1][3]]
    IN IF match # None /\ (matched.salt_amount # None \/ matched.salt_unit # None)
       THEN matched
       ELSE IF salt_index # 0
       THEN SaltBackfill(matched, lines, salt_index + 1, salt_index + 3)
       ELSE matched

\* the loop of _fallback_site_name over the first five lines, from index on
RECURSIVE FallbackSiteNameFrom(_, _, _)
FallbackSiteNameFrom(fields, lines, index) ==
    IF index > 5 \/ index > Len(lines) THEN fields
    ELSE IF _find_street_line(lines[index]) # None THEN fields
    ELSE IF TokenCount(lines[index]) >= 2
    THEN [fields EXCEPT !.site_name = Some(lines[index])]
    ELSE FallbackSiteNameFrom(fields, lines, index + 1)

\* _fallback_site_name(fields, lines): the fields it leaves
_fallback_site_name(fields, lines) ==
    IF fields.site_name # None /\ fields.site_name[1] # <<>> THEN fields
    ELSE FallbackSiteNameFrom(fields, lines, 1)

\* [line.strip() for line in text.splitlines() if line.strip()], the text
\* given as the sequence of its lines
RECURSIVE StrippedLines(_)
StrippedLines(raw) ==
    IF raw = <<>> THEN <<>>
    ELSE IF Strip(Head(raw)) = <<>> THEN StrippedLines(Tail(raw))
    ELSE <<Strip(Head(raw))>> \o StrippedLines(Tail(raw))

\* _extract_fields_from_text(text), the text given as the sequence of its lines
_extract_fields_from_text(raw) ==
    LET lines == StrippedLines(raw)
        block == _extract_address_block(lines)
        route == _extract_field_from_lines(lines, "route")
        site_name == _extract_field_from_lines(lines, "site_name")
        notes == _extract_field_from_lines(lines, "notes")
        labeled ==
            [ExtractedFields EXCEPT
                !.address = block[1],
                !.city = block[2],
                !.postal_code = _normalize_postal_code(block[3]),
                !.route = OrElse(route, None),
                !.site_name = OrElse(site_name, None),
                !.notes = OrElse(notes, None),
                !.service_days = _extract_service_days(lines),
                !.time_open = _extract_time_value(lines, "time_open"),
                !.time_closed = _extract_time_value(lines, "time_closed")]
    IN _fallback_site_name(_populate_salt_info(labeled, lines), lines)

(***************************************************************************)
(* GPS metadata.  A number is an exact fraction <<numerator, denominator>>  *)
(* in lowest terms with a positive denominator; an EXIF dict is a function *)
(* from its tags to their values.                                          *)
(***************************************************************************)
Abs(x) == IF x < 0 THEN -x ELSE x

RECURSIVE Gcd(_, _)
Gcd(a, b) == IF b = 0 THEN a ELSE Gcd(b, a % b)

\* n / d for d # 0
Rat(n, d) ==
    LET g == Gcd(Abs(n), Abs(d))
        sign == IF d < 0 THEN -1 ELSE 1
    IN <<(sign * n) \div g, (sign * d) \div g>>

RatAdd(a, b) == Rat(a[1] * b[2] + b[1] * a[2], a[2] * b[2])
RatNeg(a) == <<-a[1], a[2]>>
RatDivInt(a, k) == Rat(a[1], a[2] * k)

\* dict.get(key)
DictGet(d, key) == IF key \in DOMAIN d THEN Some(d[key]) ELSE None

\* the EXIF tag of the GPS IFD
GPSInfoTag == 34853

\* _convert(value): value[0] / value[1] as a float, None when that raises (the
\* value is no pair, or its denominator is zero)
_convert(value) ==
    IF Len(value) >= 2 /\ value[2] # 0 THEN Some(Rat(value[1], value[2])) ELSE None

\* sum(_convert(values[i]) / (60 ** i) for i in range(len(values))), from the
\* one-based position index on: None / int raises TypeError
RECURSIVE CoordinateSum(_, _)
CoordinateSum(values, index) ==
    IF index > Len(values) THEN [raised |-> FALSE, value |-> <<0, 1>>]
    ELSE LET term == _convert(values[index])
             rest == CoordinateSum(values, index + 1)
         IN IF term = None \/ rest.raised
            THEN [raised |-> TRUE, value |-> <<0, 1>>]
            ELSE [raised |-> FALSE,
                  value |-> RatAdd(RatDivInt(term[1], 60 ^ (index - 1)), rest.value)]

\* _extract_gps_from_image(image), image.getexif() given as exif: whether it
\* raises, and the (latitude, longitude) it returns otherwise
_extract_gps_from_image(exif) ==
    LET gps_info == DictGet(exif, GPSInfoTag)
        absent == [raised |-> FALSE, lat |-> None, lon |-> None]
    IN IF DOMAIN exif = {} THEN absent
       ELSE IF gps_info = None \/ DOMAIN gps_info[1] = {} THEN absent
       ELSE LET lat_values == DictGet(gps_info[1], 2)
                lat_ref == DictGet(gps_info[1], 1)
                lon_values == DictGet(gps_info[1], 4)
                lon_ref == DictGet(gps_info[1], 3)
            IN IF \/ lat_values = None \/ lat_values[1] = <<>>
                  \/ lon_values = None \/ lon_values[1] = <<>>
               THEN absent
               ELSE LET lat == CoordinateSum(lat_values[1], 1)
                        lon == CoordinateSum(lon_values[1], 1)
                    IN IF lat.raised \/ lon.raised
                       THEN [raised |-> TRUE, lat |-> None, lon |-> None]
                       ELSE [raised |-> FALSE,
                             lat |-> Some(IF lat_ref \in {Some("S"), Some("s")}
                                          THEN RatNeg(lat.value) ELSE lat.value),
                             lon |-> Some(IF lon_ref \in {Some("W"), Some("w")}
                                          THEN RatNeg(lon.value) ELSE lon.value)]

(***************************************************************************)
(* Bounds and inputs.                                                      *)
(***************************************************************************)
\* invocations of _process_job in one behaviour
MaxAttempts == 3
\* invocations of _process_job in one behaviour when they may overlap
MaxOverlapping == 2
\* lines of an input text
MaxLines == 3

Procs == {1, 2}
JobId == "j1"
ImagePath == "data/inbox_raw/j1_sheet.jpg"

\* the job_record dicts handed to extract_fields: with an image_path, with an
\* empty one, with none
JobRecordArgs ==
    {[id |-> JobId, source |-> "upload", image_path |-> ImagePath],
     [id |-> JobId, source |-> "email", image_path |-> ""],
     [id |-> JobId, source |-> "upload", status |-> "done"]}

\* what _missing_dependencies() can return
DependencyLists ==
    {<<>>, <<"pillow">>, <<"pytesseract">>, <<"pillow", "pytesseract">>}

\* str(exc) of a TesseractNotFoundError
TesseractNotFoundText ==
    "tesseract is not installed or it's not in your PATH. See README file for more information."

\* str(exc) of the exceptions OCR execution raises
ErrorTexts == {"", "cannot identify image file"}

\* texts pytesseract.image_to_string returns, as their lines
OcrTexts ==
    {<<>>,
     <<<<"x", "7", " ", "?", "?">>>>,
     <<<<"A", "d", "d", "r", "e", "s", "s", ":", " ", "1", "2", "3", " ", "M", "a", "i", "n", " ", "S", "t">>, <<"S", "p", "r", "i", "n", "g", "f", "i", "e", "l", "d">>, <<"I", "L", " ", "6", "2", "7", "0", "4">>>>}

\* image.getexif() of the images: no EXIF, a full GPS IFD, a GPS IFD with a
\* zero denominator, a GPS IFD with a component that is no pair, a GPS IFD
\* without longitude
Exifs ==
    {<<>>,
     GPSInfoTag :> ((1 :> "N") @@ (2 :> << <<40, 1>>, <<30, 1>>, <<0, 1>> >>)
                    @@ (3 :> "W") @@ (4 :> << <<96, 1>>, <<45, 2>> >>)),
     GPSInfoTag :> ((1 :> "S") @@ (2 :> << <<40, 1>>, <<30, 0>>, <<0, 1>> >>)
                    @@ (3 :> "E") @@ (4 :> << <<96, 1>> >>)),
     GPSInfoTag :> ((1 :> "N") @@ (2 :> << <<40, 1>> >>)
                    @@ (3 :> "w") @@ (4 :> << <<96, 1>>, <<45>> >>)),
     GPSInfoTag :> ((1 :> "S") @@ (2 :> << <<40, 1>> >>))}

\* the field extractor and the GPS decoder on these inputs, evaluated once
ExtractedOf == [raw_text \in OcrTexts |-> _extract_fields_from_text(raw_text)]
GpsOf == [exif \in Exifs |-> _extract_gps_from_image(exif)]

\* the lines input texts are made of
LinePool ==
    {<<"A", "d", "d", "r", "e", "s", "s", ":", " ", "1", "2", "3", " ", "M", "a", "i", "n", " ", "S", "t">>,
     <<"S", "p", "r", "i", "n", "g", "f", "i", "e", "l", "d">>,
     <<"I", "L", " ", "6", "2", "7", "0", "4">>,
     <<"A", "d", "d", "r", "e", "s", "s">>,
     <<" ", "4", "5", "6", " ", "O", "a", "k", " ", "A", "v", "e">>,
     <<"T", "i", "m", "e", " ", "O", "p", "e", "n", ":", " ", "7", "|", "0", "0", " ", "a", "m">>,
     <<"T", "i", "m", "e", " ", "C", "l", "o", "s", "e", "d", ":", " ", "1", "0", "|", "3", "0", " ", "P", "M">>,
     <<"S", "a", "l", "t", " ", "I", "n", "f", "o">>,
     <<"3", " ", "b", "a", "g", "s">>}

\* the texts handed to the field extractor, as their lines
RECURSIVE TextsOfLength(_)
TextsOfLength(n) ==
    IF n = 0 THEN {<<>>}
    ELSE {Append(t, line) : t \in TextsOfLength(n - 1), line \in LinePool}
Texts == UNION {TextsOfLength(n) : n \in 0..MaxLines}

\* settings.routebinder_inbox_url
InboxUrls == {"", "https://routebinder.example/inbox"}

(***************************************************************************)
(* The job record store of ingest.py, the orchestrator extract_fields and  *)
(* the background task _process_job.                                       *)
(***************************************************************************)
VARIABLES
    files,          \* INBOX_JOBS_DIR: job id -> the dict in <job id>.json
    pc,             \* where each invocation of _process_job stands
    job_record,     \* the dict each invocation was handed
    pending,        \* the arguments of the update_job_status call under way
    loaded,         \* the dict that call read from the job file
    result,         \* what extract_fields returned, None before it returns
    ocr,            \* how far the invocation took OCR
    delivered,      \* calls of deliver_to_routebinder made by the invocation
    posted,         \* HTTP posts to the inbox made by the invocation
    attempts,       \* invocations started so far
    overlapped,     \* extract_fields was called while another call was under way
    last_write,     \* the update_job_status call that wrote the job file last
    inbox_url,      \* settings.routebinder_inbox_url
    text,           \* the text handed to the field extractor
    fields          \* the ExtractedFields it returned, None before it ran

vars == <<files, pc, job_record, pending, loaded, result, ocr, delivered,
          posted, attempts, overlapped, last_write, inbox_url, text, fields>>

\* a Python value in a condition: None and "" are false
Truthy(opt) == opt # None /\ opt[1] # ""

\* an update in which the keys the job file already holds keep their values
update_job_status_KeepsOld(record, status, error, extraction) ==
    record
    @@ ("status" :> status)
    @@ (IF Truthy(error) THEN "error" :> error[1] ELSE <<>>)
    @@ (IF extraction # None THEN "extraction" :> extraction[1] ELSE <<>>)

\* the dict update_job_status writes back: the dict it read with the status
\* set, and the error and the extraction set when they are given
update_job_status(record, status, error, extraction) ==
    ("status" :> status)
    @@ (IF Truthy(error) THEN "error" :> error[1] ELSE <<>>)
    @@ (IF extraction # None THEN "extraction" :> extraction[1] ELSE <<>>)
    @@ record

\* the arguments of an update_job_status call
Update(status, error, extraction) ==
    [status |-> status, error |-> error, extraction |-> extraction]

\* f"OCR unavailable; missing dependencies: {', '.join(missing_deps)}"
MissingDependenciesMessage(missing) ==
    IF missing = <<"pillow">>
    THEN "OCR unavailable; missing dependencies: pillow"
    ELSE IF missing = <<"pytesseract">>
    THEN "OCR unavailable; missing dependencies: pytesseract"
    ELSE "OCR unavailable; missing dependencies: pillow, pytesseract"

\* the payload of an attempt that found OCR unavailable
UnavailablePayload(job_id, message) ==
    [status |-> "queued", job_id |-> job_id, fields |-> ExtractedFields,
     ocr_status |-> "unavailable", message |-> message]

\* what extract_fields returns after a failure
FailedResult(job_id, error) ==
    [status |-> "failed", job_id |-> job_id, error |-> error]

\* the payload of a successful attempt
DonePayload(job_id, extracted, gps, raw_text) ==
    [status |-> "done", job_id |-> job_id,
     fields |-> [extracted EXCEPT !.gps_latitude = gps.lat,
                                  !.gps_longitude = gps.lon],
     raw_text |-> raw_text]

\* a test for None alone, which lets an empty image_path through
NoImagePath_NoneOnly(record) ==
    DictGet(record, "image_path") = None

\* not image_path, for image_path = job_record.get("image_path")
NoImagePath(record) ==
    ~Truthy(DictGet(record, "image_path"))

JobInit ==
    /\ files = <<>>
    /\ pc = [p \in Procs |-> "idle"]
    /\ job_record = [p \in Procs |-> None]
    /\ pending = [p \in Procs |-> None]
    /\ loaded = [p \in Procs |-> None]
    /\ result = [p \in Procs |-> None]
    /\ ocr = [p \in Procs |-> "untouched"]
    /\ delivered = [p \in Procs |-> 0]
    /\ posted = [p \in Procs |-> 0]
    /\ attempts = 0
    /\ overlapped = FALSE
    /\ last_write = None
    /\ inbox_url \in InboxUrls

Init ==
    /\ JobInit
    /\ text = <<>>
    /\ fields = None

\* save_ingest_event: the image is stored and the job file written, queued.
\* It draws the job id, so no invocation names the job before it
save_ingest_event ==
    /\ JobId \notin DOMAIN files
    /\ attempts = 0
    /\ \E source \in {"upload", "email"} :
          files' = (JobId :> [id |-> JobId, received_at |-> "received",
                              source |-> source, metadata |-> <<>>,
                              image_path |-> ImagePath, status |-> "queued"])
                   @@ files
    /\ UNCHANGED <<pc, job_record, pending, loaded, result, ocr, delivered,
                   posted, attempts, overlapped, last_write, inbox_url, text, fields>>

\* no invocation is under way
Quiet(p) == pc[p] \in {"idle", "delivered", "skipped", "raised"}

\* extract_fields is under way
InExtractFields(p) ==
    pc[p] \in {"processing_read", "processing_write", "check", "final_read",
               "final_write"}

\* _process_job(record) starts: extract_fields calls
\* update_job_status(job_id, "processing")
Begin(p, record) ==
    /\ Quiet(p)
    /\ attempts < MaxAttempts
    /\ attempts' = attempts + 1
    /\ overlapped' = (overlapped \/ \E q \in Procs : InExtractFields(q))
    /\ pc' = [pc EXCEPT ![p] = "processing_read"]
    /\ job_record' = [job_record EXCEPT ![p] = Some(record)]
    /\ pending' = [pending EXCEPT ![p] = Some(Update("processing", None, None))]
    /\ loaded' = [loaded EXCEPT ![p] = None]
    /\ result' = [result EXCEPT ![p] = None]
    /\ ocr' = [ocr EXCEPT ![p] = "untouched"]
    /\ delivered' = [delivered EXCEPT ![p] = 0]
    /\ posted' = [posted EXCEPT ![p] = 0]
    /\ UNCHANGED <<files, last_write, inbox_url, text, fields>>

\* the caller dispatches a job only when no other invocation is under way
Invoke(p) ==
    /\ \A q \in Procs : Quiet(q)
    /\ \E record \in JobRecordArgs : Begin(p, record)

\* a caller that dispatches a job while another invocation is under way
InvokeOverlapping(p) ==
    /\ attempts < MaxOverlapping
    /\ \E record \in JobRecordArgs : Begin(p, record)

\* where an update_job_status call returns to
AfterUpdate(at) == IF at \in {"processing_read", "processing_write"}
                   THEN "check" ELSE "returned"

\* update_job_status up to the read of the job file: a job without a file is
\* left alone
ReadJobFile(p) ==
    /\ pc[p] \in {"processing_read", "final_read"}
    /\ IF job_record[p][1].id \in DOMAIN files
       THEN /\ loaded' = [loaded EXCEPT ![p] = Some(files[job_record[p][1].id])]
            /\ pc' = [pc EXCEPT ![p] = IF pc[p] = "processing_read"
                                       THEN "processing_write" ELSE "final_write"]
            /\ UNCHANGED pending
       ELSE /\ pc' = [pc EXCEPT ![p] = AfterUpdate(pc[p])]
            /\ pending' = [pending EXCEPT ![p] = None]
            /\ UNCHANGED loaded
    /\ UNCHANGED <<files, job_record, result, ocr, delivered, posted, attempts,
                   overlapped, last_write, inbox_url, text, fields>>

\* update_job_status from the read on: the dict is changed and written back
WriteJobFile(p) ==
    /\ pc[p] \in {"processing_write", "final_write"}
    /\ files' = (job_record[p][1].id :>
                    update_job_status(loaded[p][1], pending[p][1].status,
                                      pending[p][1].error, pending[p][1].extraction))
                @@ files
    /\ last_write' = pending[p]
    /\ pc' = [pc EXCEPT ![p] = AfterUpdate(pc[p])]
    /\ pending' = [pending EXCEPT ![p] = None]
    /\ loaded' = [loaded EXCEPT ![p] = None]
    /\ UNCHANGED <<job_record, result, ocr, delivered, posted, attempts,
                   overlapped, inbox_url, text, fields>>

\* extract_fields goes on to its last update_job_status call and will return
\* returned
Finish(p, update, returned, reached) ==
    /\ pc' = [pc EXCEPT ![p] = "final_read"]
    /\ pending' = [pending EXCEPT ![p] = Some(update)]
    /\ result' = [result EXCEPT ![p] = Some(returned)]
    /\ ocr' = [ocr EXCEPT ![p] = reached]
    /\ UNCHANGED <<files, job_record, loaded, delivered, posted, attempts,
                   overlapped, last_write, inbox_url, text, fields>>

\* extract_fields marks the job queued with the payload and returns the payload
FinishUnavailable(p, message, payload) ==
    Finish(p, Update("queued", Some(message), Some(payload)), payload, "unavailable")

\* extract_fields marks the job failed with the error and returns the error
FinishFailed(p, error, reached) ==
    Finish(p, Update("failed", Some(error), None),
           FailedResult(job_record[p][1].id, error), reached)

\* extract_fields marks the job done with the payload and returns the payload
FinishDone(p, payload) ==
    Finish(p, Update("done", None, Some(payload)), payload, "succeeded")

\* extract_fields, the job record has no image_path
MissingImagePath(p) ==
    /\ pc[p] = "check"
    /\ NoImagePath(job_record[p][1])
    /\ FinishFailed(p, "missing image_path", "untouched")

\* extract_fields, _missing_dependencies() names a missing package
MissingDependencies(p) ==
    /\ pc[p] = "check"
    /\ ~NoImagePath(job_record[p][1])
    /\ \E missing \in DependencyLists \ {<<>>} :
          FinishUnavailable(p, MissingDependenciesMessage(missing),
                            UnavailablePayload(job_record[p][1].id,
                                               MissingDependenciesMessage(missing)))

\* extract_fields, pytesseract.get_tesseract_version() raises
\* TesseractNotFoundError
TesseractNotFound(p) ==
    /\ pc[p] = "check"
    /\ ~NoImagePath(job_record[p][1])
    /\ FinishUnavailable(p, TesseractNotFoundText,
                         UnavailablePayload(job_record[p][1].id,
                                            TesseractNotFoundText))

\* extract_fields, opening the image or running OCR raises
OcrRaises(p) ==
    /\ pc[p] = "check"
    /\ ~NoImagePath(job_record[p][1])
    /\ \E error \in ErrorTexts :
          FinishFailed(p, error, "failed")

\* extract_fields, OCR returned raw_text and the GPS decoder returned
ExtractDone(p) ==
    /\ pc[p] = "check"
    /\ ~NoImagePath(job_record[p][1])
    /\ \E raw_text \in OcrTexts, exif \in Exifs :
          /\ ~GpsOf[exif].raised
          /\ FinishDone(p, DonePayload(job_record[p][1].id, ExtractedOf[raw_text],
                                       GpsOf[exif], raw_text))

\* extract_fields, OCR returned raw_text and the GPS decoder raised: the
\* exception leaves extract_fields and _process_job
ExtractRaises(p) ==
    /\ pc[p] = "check"
    /\ ~NoImagePath(job_record[p][1])
    /\ \E exif \in Exifs :
          /\ GpsOf[exif].raised
          /\ pc' = [pc EXCEPT ![p] = "raised"]
          /\ ocr' = [ocr EXCEPT ![p] = "succeeded"]
    /\ UNCHANGED <<files, job_record, pending, loaded, result, delivered,
                   posted, attempts, overlapped, last_write, inbox_url, text, fields>>

\* deliver_to_routebinder(payload): the posts it makes, none when no inbox
\* URL is configured; _process_job drops what it returns
deliver_to_routebinder(url, payload) == IF url = "" THEN 0 ELSE 1

\* a test that lets every result but a failed one through
ShouldDeliver_NotFailed(extraction) == extraction.status # "failed"

\* _process_job after extract_fields returned: the payload goes to the sink
\* when its status is done
ShouldDeliver(extraction) == extraction.status = "done"

\* _process_job calls deliver_to_routebinder(extraction)
Deliver(p) ==
    /\ pc[p] = "returned"
    /\ ShouldDeliver(result[p][1])
    /\ posted' = [posted EXCEPT ![p] =
                      posted[p] + deliver_to_routebinder(inbox_url, result[p][1])]
    /\ delivered' = [delivered EXCEPT ![p] = delivered[p] + 1]
    /\ pc' = [pc EXCEPT ![p] = "delivered"]
    /\ UNCHANGED <<files, job_record, pending, loaded, result, ocr, attempts,
                   overlapped, last_write, inbox_url, text, fields>>

\* _process_job returns without a delivery
SkipDelivery(p) ==
    /\ pc[p] = "returned"
    /\ ~ShouldDeliver(result[p][1])
    /\ pc' = [pc EXCEPT ![p] = "skipped"]
    /\ UNCHANGED <<files, job_record, pending, loaded, result, ocr, delivered,
                   posted, attempts, overlapped, last_write, inbox_url, text, fields>>

\* _extract_fields_from_text(text) is called on the input text
ExtractFromText ==
    /\ fields = None
    /\ fields' = Some(_extract_fields_from_text(text))
    /\ UNCHANGED <<text, files, pc, job_record, pending, loaded, result, ocr,
                   delivered, posted, attempts, overlapped, last_write, inbox_url>>

Step(p) ==
    \/ ReadJobFile(p)
    \/ WriteJobFile(p)
    \/ MissingImagePath(p)
    \/ MissingDependencies(p)
    \/ TesseractNotFound(p)
    \/ OcrRaises(p)
    \/ ExtractDone(p)
    \/ ExtractRaises(p)
    \/ Deliver(p)
    \/ SkipDelivery(p)

\* the background task runner of a single-request deployment
Worker == CHOOSE p \in Procs : \A q \in Procs : p <= q

Next ==
    \/ save_ingest_event
    \/ Invoke(Worker)
    \/ Step(Worker)

Spec == Init /\ [][Next]_vars

NextOverlap ==
    \/ save_ingest_event
    \/ \E p \in Procs : InvokeOverlapping(p) \/ Step(p)

SpecOverlap == Init /\ [][NextOverlap]_vars

\* the field extractor alone, on every text of the bounded set
InitText ==
    /\ JobInit
    /\ inbox_url = ""
    /\ text \in Texts
    /\ fields = None

NextText == ExtractFromText

SpecText == InitText /\ [][NextText]_vars

(***************************************************************************)
(* The claims.                                                             *)
(***************************************************************************)
\* the job file exists, and the dict it holds
Exists == JobId \in DOMAIN files
Record == files[JobId]

\* the invocation of p was handed a record, and that record names an image
Started(p) == job_record[p] # None
HasImagePath(p) == Started(p) /\ ~NoImagePath(job_record[p][1])

\* extract_fields of p has returned; it has returned or raised
Returned(p) == pc[p] \in {"returned", "delivered", "skipped"}
Ended(p) == Returned(p) \/ pc[p] = "raised"

\* C1: for an existing job with an image_path, every invocation that finds
\* OCR unavailable ends with the persisted status queued, and an invocation
\* for which OCR is available and returns text ends with the persisted
\* status done.
C1_UnavailableQueuedAvailableDone ==
    \A p \in Procs :
        (Exists /\ HasImagePath(p) /\ Ended(p)) =>
            /\ (ocr[p] = "unavailable" => Record.status = "queued")
            /\ (ocr[p] = "succeeded" => Record.status = "done")

\* the record has no image_path, or an empty one
LacksImagePath(record) == DictGet(record, "image_path") \in {None, Some("")}

\* C2: an invocation on a record with no or an empty image_path never
\* touches OCR, never raises, delivers nothing, returns the failed result with
\* the error "missing image_path", and leaves an existing job file with the
\* status failed and that error.
C2_MissingImagePathFails ==
    \A p \in Procs :
        (Started(p) /\ LacksImagePath(job_record[p][1])) =>
            /\ ocr[p] = "untouched"
            /\ pc[p] # "raised"
            /\ delivered[p] = 0
            /\ Returned(p) =>
                  /\ result[p] = Some(FailedResult(JobId, "missing image_path"))
                  /\ Exists => /\ Record.status = "failed"
                               /\ DictGet(Record, "error") = Some("missing image_path")

\* C2 witness: an invocation without image_path has returned on a job file
\* that an earlier attempt left with an extraction and another error.
C2_Witness ==
    \E p \in Procs :
        /\ Returned(p)
        /\ LacksImagePath(job_record[p][1])
        /\ Exists
        /\ "extraction" \in DOMAIN Record
        /\ Record.status = "failed"
        /\ attempts >= 2

\* C3: whenever OCR returned text, the invocation does not raise, returns a
\* done result and leaves an existing job file with the status done, for
\* every text and every GPS metadata.
C3_OcrTextEndsDone ==
    \A p \in Procs :
        (ocr[p] = "succeeded" /\ Ended(p)) =>
            /\ pc[p] # "raised"
            /\ result[p] # None
            /\ result[p][1].status = "done"
            /\ Exists => Record.status = "done"

\* C4: whenever extract_fields has returned for an existing job, the status
\* in the job file is the status of the returned result and is one of done,
\* failed, queued.
C4_PersistedStatusIsReturnedStatus ==
    \A p \in Procs :
        (Returned(p) /\ Exists) =>
            /\ Record.status = result[p][1].status
            /\ Record.status \in {"done", "failed", "queued"}

\* C4 witness: extract_fields has just returned failed after an OCR error on
\* an existing job, and the job file says failed.
C4_Witness ==
    \E p \in Procs :
        /\ pc[p] = "returned"
        /\ Exists
        /\ ocr[p] = "failed"
        /\ Record.status = "failed"

\* C5: every returned result whose status is not done carries a fields entry
\* equal to the all-absent ExtractedFields, and raw_text is present only in
\* done results.
C5_NonSuccessCarriesEmptyFields ==
    \A p \in Procs :
        result[p] # None =>
            /\ result[p][1].status # "done" =>
                  /\ "fields" \in DOMAIN result[p][1]
                  /\ result[p][1].fields = ExtractedFields
            /\ "raw_text" \in DOMAIN result[p][1] => result[p][1].status = "done"

\* C6: after every completed invocation on an existing job, an extraction
\* held by the job file is the payload that invocation produced, never one
\* left by an earlier attempt.
C6_ExtractionIsThisAttempts ==
    \A p \in Procs :
        (Returned(p) /\ Exists /\ "extraction" \in DOMAIN Record) =>
            Record.extraction = result[p][1]

\* C7: after two overlapping invocations have both returned, the job file
\* holds the status of the update that wrote last, never processing, and the
\* error and extraction it holds are the ones that update supplied.
C7_LastWriterWinsWhole ==
    (overlapped /\ Exists /\ last_write # None /\ \A p \in Procs : Returned(p)) =>
        /\ Record.status = last_write[1].status
        /\ Record.status # "processing"
        /\ "error" \in DOMAIN Record => Some(Record.error) = last_write[1].error
        /\ "extraction" \in DOMAIN Record =>
              Some(Record.extraction) = last_write[1].extraction

\* C8: an invocation calls the delivery sink at most once, only with a done
\* result and, for an existing job, only once the job file says done; an
\* invocation that ended failed or queued, or raised, calls it never.
C8_DeliveryOnlyAfterDone ==
    \A p \in Procs :
        /\ delivered[p] <= 1
        /\ delivered[p] = 1 =>
              /\ pc[p] = "delivered"
              /\ result[p] # None
              /\ result[p][1].status = "done"
              /\ Exists => Record.status = "done"
        /\ pc[p] \in {"skipped", "raised"} => delivered[p] = 0
        /\ (Returned(p) /\ result[p][1].status \in {"failed", "queued"}) =>
              delivered[p] = 0

\* C8 witness: the sink has been called once for a done result of an
\* existing job.
C8_Witness ==
    \E p \in Procs :
        /\ pc[p] = "delivered"
        /\ delivered[p] = 1
        /\ Exists
        /\ Record.status = "done"

\* the position of the first line of lines that holds the label of key, 0
\* when no line does
FirstLabelLine(lines, key) ==
    LET hits == {i \in 1..Len(lines) : PatternSearch(key, lines[i]) # None}
    IN IF hits = {} THEN 0 ELSE Min(hits)

\* the first address label line of lines carries a value inline and is
\* followed by a line without label and a STATE ZIP line without label
InlineAddressBlock(lines) ==
    LET i == FirstLabelLine(lines, "address")
    IN /\ i # 0
       /\ Strip(PatternSearch("address", lines[i])[1]) # <<>>
       /\ i + 2 <= Len(lines)
       /\ ~MatchesAnyLabel(lines[i + 1])
       /\ ~MatchesAnyLabel(lines[i + 2])
       /\ StateZipSearch(lines[i + 2]) # None

\* C9: for a text whose address label line carries its value inline and is
\* followed by a city line and a STATE ZIP line, the extractor yields the
\* inline value as address, the next line as city and the five digits as
\* postal_code.
C9_InlineAddressWins ==
    (fields # None /\ InlineAddressBlock(StrippedLines(text))) =>
        LET lines == StrippedLines(text)
            i == FirstLabelLine(lines, "address")
            zip == StateZipSearch(lines[i + 2])[1]
        IN /\ fields[1].address = Some(Strip(PatternSearch("address", lines[i])[1]))
           /\ fields[1].city = Some(lines[i + 1])
           /\ fields[1].postal_code = Some(SubSeq(zip, Len(zip) - 4, Len(zip)))

\* value is one or two hour digits, a vertical bar, two minute digits and
\* am or pm, with nd hour digits
BarTimeWith(value, nd) ==
    /\ DigitsAt(value, 1, nd)
    /\ nd + 1 <= Len(value)
    /\ value[nd + 1] = "|"
    /\ DigitsAt(value, nd + 2, 2)
    /\ AmPmAt(value, SkipSpace(value, nd + 4))
    /\ SkipSpace(value, nd + 4) + 1 = Len(value)

\* the H:MMAM/PM form of such a value
BarTimeCompact(value) ==
    LET nd == Min({n \in 1..2 : BarTimeWith(value, n)})
    IN SubSeq(value, 1, nd) \o <<":">> \o SubSeq(value, nd + 2, nd + 3)
       \o UpperStr(SubSeq(value, Len(value) - 1, Len(value)))

\* the first line of lines with the label of key carries a bar time inline
InlineBarTime(lines, key) ==
    LET i == FirstLabelLine(lines, key)
    IN /\ i # 0
       /\ \E nd \in 1..2 : BarTimeWith(Strip(PatternSearch(key, lines[i])[1]), nd)

\* what the claim says the extractor yields for it
ExpectedBarTime(lines, key) ==
    Some(BarTimeCompact(Strip(PatternSearch(key, lines[FirstLabelLine(lines, key)])[1])))

\* C10: for a time open or time closed label whose inline value has a
\* vertical bar between the hour and the two minute digits, followed by am or
\* pm, the extractor yields the compacted upper-cased H:MMAM/PM form, hour
\* kept.
C10_BarTimeKeepsHour ==
    fields # None =>
        /\ InlineBarTime(StrippedLines(text), "time_open") =>
              fields[1].time_open = ExpectedBarTime(StrippedLines(text), "time_open")
        /\ InlineBarTime(StrippedLines(text), "time_closed") =>
              fields[1].time_closed = ExpectedBarTime(StrippedLines(text), "time_closed")

\* line is "Salt Info" and nothing else, in any case
SaltInfoAlone(line) ==
    /\ Len(line) = 9
    /\ StartsAt(line, <<"s", "a", "l", "t", " ", "i", "n", "f", "o">>, 1)

\* a product token stands somewhere in line
NamesProduct(line) ==
    \E i \in 1..Len(line), a \in 1..Len(ProductTokens) :
        StartsAt(line, ProductTokens[a], i)

\* line is a number, blanks and a unit, and nothing else
NumberUnitLine(line) ==
    /\ Len(line) >= 1
    /\ IsDigit(line[1])
    /\ UnitAtPos(line, SkipSpace(line, NumberEnd(line, 1))) # None
    /\ SkipSpace(line, NumberEnd(line, 1))
         + Len(UnitAtPos(line, SkipSpace(line, NumberEnd(line, 1)))[1]) - 1 = Len(line)

\* the position of the first line that is "Salt Info" alone, 0 when none is
SaltInfoLine(lines) ==
    LET hits == {i \in 1..Len(lines) : SaltInfoAlone(lines[i])}
    IN IF hits = {} THEN 0 ELSE Min(hits)

\* the positions within the three lines after the "Salt Info" line that hold
\* a number unit line with no digit on the lines between
BackfillLines(lines) ==
    LET i == SaltInfoLine(lines)
    IN {k \in (i + 1)..Min({i + 3, Len(lines)}) :
           /\ NumberUnitLine(lines[k])
           /\ \A j \in (i + 1)..(k - 1) :
                 \A c \in 1..Len(lines[j]) : ~IsDigit(lines[j][c])}

\* a "Salt Info" line stands on its own, no other line names a product, and
\* a number unit line follows within three lines
SaltBackfillCase(lines) ==
    /\ SaltInfoLine(lines) # 0
    /\ \A j \in 1..Len(lines) : j # SaltInfoLine(lines) => ~NamesProduct(lines[j])
    /\ BackfillLines(lines) # {}

\* C11: for a text with a "Salt Info" line on its own, no product named
\* anywhere else and a number unit line within the three lines after it, the
\* extractor yields the number as salt_amount, the unit as salt_unit and no
\* salt_product.
C11_SaltBackfillNoProduct ==
    (fields # None /\ SaltBackfillCase(StrippedLines(text))) =>
        LET line == StrippedLines(text)[Min(BackfillLines(StrippedLines(text)))]
        IN /\ fields[1].salt_amount = Some(SubSeq(line, 1, NumberEnd(line, 1) - 1))
           /\ fields[1].salt_unit = UnitAtPos(line, SkipSpace(line, NumberEnd(line, 1)))
           /\ fields[1].salt_product = None

\* the amount and unit of C11 alone
C11_AmountAndUnitOnly ==
    (fields # None /\ SaltBackfillCase(StrippedLines(text))) =>
        LET line == StrippedLines(text)[Min(BackfillLines(StrippedLines(text)))]
        IN /\ fields[1].salt_amount = Some(SubSeq(line, 1, NumberEnd(line, 1) - 1))
           /\ fields[1].salt_unit = UnitAtPos(line, SkipSpace(line, NumberEnd(line, 1)))

\* the backfill case has been extracted
C11_Reached == fields # None /\ SaltBackfillCase(StrippedLines(text))

\* a line before the first address label line matches the street pattern
StreetBeforeLabel(lines) ==
    \E j \in 1..(FirstLabelLine(lines, "address") - 1) :
        _find_street_line(lines[j]) # None

\* C12: for every list of lines that holds an address label line, address,
\* city and postal code are the ones of the lines that follow the first such
\* line, also when an earlier line matches the street pattern.
C12_LabeledPathTakesPrecedence ==
    (fields # None /\ FirstLabelLine(StrippedLines(text), "address") # 0) =>
        LET lines == StrippedLines(text)
            block == LabeledAddressBlock(lines, FirstLabelLine(lines, "address"))
        IN /\ fields[1].address = block[1]
           /\ fields[1].city = block[2]
           /\ fields[1].postal_code = _normalize_postal_code(block[3])

\* the same for the texts in which no street line stands before the label
C12_LabeledPathWithoutEarlierStreet ==
    (/\ fields # None
     /\ FirstLabelLine(StrippedLines(text), "address") # 0
     /\ ~StreetBeforeLabel(StrippedLines(text))) =>
        LET lines == StrippedLines(text)
            block == LabeledAddressBlock(lines, FirstLabelLine(lines, "address"))
        IN /\ fields[1].address = block[1]
           /\ fields[1].city = block[2]
           /\ fields[1].postal_code = _normalize_postal_code(block[3])

\* a text with a street line before its address label line has been extracted
C12_Reached ==
    /\ fields # None
    /\ FirstLabelLine(StrippedLines(text), "address") # 0
    /\ StreetBeforeLabel(StrippedLines(text))

\* C13: whenever an invocation has marked an existing job failed because OCR
\* raised, the job file holds an error and it is the error text the
\* invocation returns, whatever the text; and a job file with the status
\* failed holds the error of the update that wrote that status.
C13_FailedRecordCarriesItsError ==
    /\ \A p \in Procs :
          (Returned(p) /\ Exists /\ ocr[p] = "failed") =>
              /\ Record.status = "failed"
              /\ DictGet(Record, "error") = Some(result[p][1].error)
    /\ (Exists /\ Record.status = "failed") =>
          /\ last_write # None
          /\ last_write[1].status = "failed"
          /\ DictGet(Record, "error") = last_write[1].error

\* the same for the failures whose error text is not empty
C13_NonEmptyErrorIsPersisted ==
    /\ \A p \in Procs :
          (Returned(p) /\ Exists /\ ocr[p] = "failed" /\ result[p][1].error # "") =>
              /\ Record.status = "failed"
              /\ DictGet(Record, "error") = Some(result[p][1].error)
    /\ (Exists /\ Record.status = "failed" /\ last_write[1].error # Some("")) =>
          /\ last_write[1].status = "failed"
          /\ DictGet(Record, "error") = last_write[1].error

\* an invocation whose OCR raised with an empty text has returned on a job
\* file that an earlier attempt left with an error
C13_Reached ==
    \E p \in Procs :
        /\ Returned(p)
        /\ Exists
        /\ ocr[p] = "failed"
        /\ result[p][1].error = ""
        /\ attempts >= 2
        /\ "error" \in DOMAIN Record
====
